---- MODULE Spec2Model ----
(***************************************************************************)
(* The store data plane of embedding-service-py: the identifier check,     *)
(* create/delete store, single and batch ingest and query of               *)
(* src/app/services/store.py, reached through the endpoints of             *)
(* src/app/api/stores.py, over the tables of src/app/core/database.py.     *)
(*                                                                         *)
(* Every statement sent on a connection is its own transaction (no         *)
(* conn.transaction() anywhere in the code), and every await is a point    *)
(* where another request may run: one action per awaited call.             *)
(***************************************************************************)
EXTENDS Integers, Sequences, FiniteSets, TLC

VARIABLES
    models,     \* table embeddings_models: model id -> [dimensions]
    stores,     \* table stores: store id -> [model, description]
    tables,     \* the content tables: SQL table name -> [rows, seq, dims, uniq]
    proc,       \* the requests in flight, one record per worker
    nops,       \* how many more requests each worker will start
    vin,        \* the string handed to the identifier check
    vout,       \* what the identifier checks made of vin
    hist,       \* what an observer of a single client has noted down
    pool        \* the module's _pool, the pools made, and the get_pool calls

vars == <<models, stores, tables, proc, nops, vin, vout, hist, pool>>

----------------------------------------------------------------------------
(* Bounds of the model. *)

MaxNameLen == 3
MaxOps == 2
MaxOps2 == 1
MaxSeqOps == 2
MaxBatch == 2
MaxSeqBatch == 3
MaxCatalogOps == 3
MaxRecreateOps == 4
MaxPoolCalls == 2
MaxCloses == 2
MaxRaceOps == 1

----------------------------------------------------------------------------
(* Characters and identifiers. A string is a sequence of one-character      *)
(* strings, so that the regular expression and the backend's case folding   *)
(* are computed character by character.                                     *)

LowerSeq == <<"a","b","c","d","e","f","g","h","i","j","k","l","m",
              "n","o","p","q","r","s","t","u","v","w","x","y","z">>
UpperSeq == <<"A","B","C","D","E","F","G","H","I","J","K","L","M",
              "N","O","P","Q","R","S","T","U","V","W","X","Y","Z">>
DigitSeq == <<"0","1","2","3","4","5","6","7","8","9">>

Range(s) == {s[i] : i \in DOMAIN s}

\* [a-zA-Z_]
HeadChars == Range(LowerSeq) \cup Range(UpperSeq) \cup {"_"}
\* [a-zA-Z0-9_]
TailChars == HeadChars \cup Range(DigitSeq)

\* [a-zA-Z_][a-zA-Z0-9_]* consuming the whole of s
BareIdentifier(s) ==
    /\ Len(s) >= 1
    /\ s[1] \in HeadChars
    /\ \A i \in 2..Len(s) : s[i] \in TailChars

\* Python's $ (no re.MULTILINE): the end of the string, or the position just
\* before a newline that is the string's last character.
DollarMatchesAfter(s, k) ==
    \/ k = Len(s)
    \/ k = Len(s) - 1 /\ s[Len(s)] = "\n"

\* re.match(r"^[a-zA-Z_][a-zA-Z0-9_]*$", name): some prefix of name is a bare
\* identifier and $ matches right after it.
ReMatchIdentifier(name) ==
    \E k \in 1..Len(name) :
        /\ BareIdentifier(SubSeq(name, 1, k))
        /\ DollarMatchesAfter(name, k)

\* _validate_table_name: TRUE when it returns the name, FALSE when it raises
\* ValueError.
ValidateTableName(name) == ReMatchIdentifier(name)

\* _validate_metadata_key: the same pattern.
ValidateMetadataKey(key) == ReMatchIdentifier(key)

----------------------------------------------------------------------------
(* The backend's reading of a name spliced unquoted into statement text.    *)

ToLowerChar(c) ==
    IF \E i \in DOMAIN UpperSeq : UpperSeq[i] = c
    THEN LowerSeq[CHOOSE i \in DOMAIN UpperSeq : UpperSeq[i] = c]
    ELSE c

\* A trailing newline is white space to the backend, not part of the name.
StripNewline(name) ==
    IF Len(name) >= 1 /\ name[Len(name)] = "\n"
    THEN SubSeq(name, 1, Len(name) - 1)
    ELSE name

\* f"CREATE TABLE IF NOT EXISTS {table_name} (" and f"... FROM {table_name}":
\* the name is not quoted, so the backend folds it to lower case.
SqlName(name) ==
    [i \in 1..Len(StripNewline(name)) |-> ToLowerChar(StripNewline(name)[i])]

StoresTable == <<"s","t","o","r","e","s">>
ModelsTable == <<"e","m","b","e","d","d","i","n","g","s","_","m","o","d","e","l","s">>

\* The tables init_db creates.
CatalogTables == {StoresTable, ModelsTable}

\* Words the backend reserves: an unquoted one is a syntax error as a table name.
SqlReserved == { <<"a","s">>, <<"d","o">>, <<"i","n">>, <<"o","n">>, <<"o","r">>, <<"t","o">> }

----------------------------------------------------------------------------
(* Values of the requests.                                                  *)

Workers == {1, 2}

ModelIds == {"m1"}
DimChoices == {0, 2}
Descriptions == {"d"}

\* The length of the vectors the provider returns for a model.
EmbedderDims(model_id) == 2

\* None, and the marker of a request object that has no such attribute.
None == "None"
NoAttr == "NoAttr"

\* The metadata of a request object: the attribute is missing (the request
\* schemas StoreEmbedRequest and StoreQueryRequest declare no metadata field,
\* so reading request.metadata raises AttributeError), or it is None, or a dict.
MetaNoAttr == [kind |-> "noattr", d |-> <<>>]
MetaNone == [kind |-> "none", d |-> <<>>]
MetaDict(d) == [kind |-> "dict", d |-> d]

NoRes == [kind |-> "none", status |-> 0, exc |-> "", body |-> None]

Idle ==
    [pc |-> "idle", op |-> "none", sid |-> <<>>, model |-> None, dims |-> 0,
     content |-> None, query |-> None, meta |-> MetaNone, items |-> <<>>,
     newItems |-> <<>>, i |-> 0, results |-> <<>>,
     created |-> 0, skipped |-> 0, calls |-> <<>>, vec |-> <<>>,
     description |-> None, limit |-> 0, max_distance |-> <<>>,
     conn |-> 0, res |-> NoRes]

Ok(status, body) == [kind |-> "ok", status |-> status, exc |-> "", body |-> body]

\* HTTPException raised by the endpoint itself.
Http(status) == [kind |-> "error", status |-> status, exc |-> "HTTPException", body |-> None]

\* An exception of the service layer or the backend. The ingest and query
\* endpoints turn it into a 500; create and delete let it propagate, which the
\* framework answers with a 500 as well.
Raised(exc) == [kind |-> "error", status |-> 500, exc |-> exc, body |-> None]

\* Ended with the connection still held.
Ended_KeepConn(r, res) ==
    [r EXCEPT !.pc = "done", !.res = res, !.newItems = <<>>, !.i = 0,
              !.results = <<>>, !.created = 0, !.skipped = 0, !.vec = <<>>]

\* The record of a request that has ended with res: what it was asked, the
\* Embedder calls it made and its response; its local variables are gone,
\* and the block of async with pool.acquire() as conn has been left, by
\* return or by exception, which gives the connection back.
Ended(r, res) ==
    [r EXCEPT !.pc = "done", !.res = res, !.newItems = <<>>, !.i = 0,
              !.results = <<>>, !.created = 0, !.skipped = 0, !.vec = <<>>,
              !.conn = 0]

\* The request of worker p ends with res.
Finish(p, res) ==
    proc' = [proc EXCEPT ![p] = Ended(@, res)]

\* Worker p may take up a new request.
CanStart(p) ==
    /\ proc[p].pc \in {"idle", "done"}
    /\ nops[p] > 0

\* The record of a request that has just arrived and entered the block of
\* async with pool.acquire() as conn.
Fresh(op, sid) == [Idle EXCEPT !.op = op, !.sid = sid, !.conn = 1]

----------------------------------------------------------------------------
(* The catalog of models: PUT /embeddings-models, one statement.            *)

\* INSERT ... ON CONFLICT (id) DO UPDATE SET description, dimensions
upsert_embeddings_model(p, mid, dims) ==
    /\ CanStart(p)
    /\ models' = [m \in DOMAIN models \cup {mid} |->
                    IF m = mid THEN [dimensions |-> dims] ELSE models[m]]
    /\ nops' = [nops EXCEPT ![p] = @ - 1]
    /\ proc' = [proc EXCEPT ![p] =
                    Ended([Fresh("upsert_model", <<>>) EXCEPT
                               !.model = mid, !.dims = dims],
                          Ok(IF mid \in DOMAIN models THEN 200 ELSE 201, None))]
    /\ UNCHANGED <<stores, tables, vin, vout>>

----------------------------------------------------------------------------
(* create_store_endpoint and create_store.                                  *)

\* _get_and_validate_model: SELECT ... FROM embeddings_models WHERE id = $1
create_store_endpoint(p, sid, mid, desc) ==
    /\ CanStart(p)
    /\ nops' = [nops EXCEPT ![p] = @ - 1]
    /\ LET r == [Fresh("create", sid) EXCEPT !.model = mid, !.description = desc] IN
       IF mid \notin DOMAIN models
       THEN proc' = [proc EXCEPT ![p] = Ended(r, Http(400))]
       ELSE proc' = [proc EXCEPT ![p] =
                        [r EXCEPT !.pc = "c_exists", !.dims = models[mid].dimensions]]
    /\ UNCHANGED <<models, stores, tables, vin, vout>>

\* create_store_exists without the check.
create_store_exists_Skip(p) ==
    /\ proc[p].pc = "c_exists"
    /\ proc' = [proc EXCEPT ![p].pc = "c_insert"]
    /\ UNCHANGED <<models, stores, tables, nops, vin, vout>>

\* existing = await get_store(conn, store.id); 409 when there is one
create_store_exists(p) ==
    /\ proc[p].pc = "c_exists"
    /\ IF proc[p].sid \in DOMAIN stores
       THEN Finish(p, Http(409))
       ELSE proc' = [proc EXCEPT ![p].pc = "c_insert"]
    /\ UNCHANGED <<models, stores, tables, nops, vin, vout>>

\* INSERT INTO stores (id, model, description): id is the primary key and
\* model references embeddings_models(id).
StoresInsertError(sid, mid) ==
    IF sid \in DOMAIN stores THEN "UniqueViolationError"
    ELSE IF mid \notin DOMAIN models THEN "ForeignKeyViolationError"
    ELSE None

\* create_store up to its second await: the catalog row is inserted and
\* committed, and only then is the id checked as a table name.
create_store_insert(p) ==
    /\ proc[p].pc = "c_insert"
    /\ LET r == proc[p]
           err == StoresInsertError(r.sid, r.model) IN
       IF err # None
       THEN /\ Finish(p, Raised(err))
            /\ UNCHANGED stores
       ELSE /\ stores' = [s \in DOMAIN stores \cup {r.sid} |->
                            IF s = r.sid
                            THEN [model |-> r.model, description |-> r.description]
                            ELSE stores[s]]
            /\ IF ValidateTableName(r.sid)
               THEN proc' = [proc EXCEPT ![p].pc = "c_table"]
               ELSE Finish(p, Raised("ValueError"))
    /\ UNCHANGED <<models, tables, nops, vin, vout>>

\* NewTable with the UNIQUE constraint on content left out.
NewTable_NoUnique(dimensions) ==
    [rows |-> {}, seq |-> 0, dims |-> dimensions, uniq |-> FALSE]

\* The new, empty content table of CREATE TABLE: id SERIAL PRIMARY KEY,
\* content TEXT NOT NULL UNIQUE, embedding vector(dimensions), metadata JSON.
NewTable(dimensions) ==
    [rows |-> {}, seq |-> 0, dims |-> dimensions, uniq |-> TRUE]

\* CREATE TABLE IF NOT EXISTS {table_name} (... embedding vector({dimensions}) ...)
CreateTableError(name, dimensions) ==
    IF SqlName(name) \in SqlReserved THEN "PostgresSyntaxError"
    ELSE IF SqlName(name) \in CatalogTables \cup DOMAIN tables THEN None
    ELSE IF dimensions < 1 THEN "InvalidParameterValueError"
    ELSE None

create_store_table(p) ==
    /\ proc[p].pc = "c_table"
    /\ LET r == proc[p]
           t == SqlName(r.sid)
           err == CreateTableError(r.sid, r.dims) IN
       IF err # None
       THEN /\ Finish(p, Raised(err))
            /\ UNCHANGED tables
       ELSE /\ tables' = IF t \in CatalogTables \cup DOMAIN tables
                         THEN tables
                         ELSE [n \in DOMAIN tables \cup {t} |->
                                 IF n = t THEN NewTable(r.dims) ELSE tables[n]]
            /\ Finish(p, Ok(201, [id |-> r.sid, model |-> r.model]))
    /\ UNCHANGED <<models, stores, nops, vin, vout>>

----------------------------------------------------------------------------
(* delete_store_endpoint and delete_store: DELETE FROM stores WHERE id = $1 *)

\* delete_store_endpoint dropping the store's table with the catalog row.
delete_store_endpoint_Drop(p, sid) ==
    /\ CanStart(p)
    /\ nops' = [nops EXCEPT ![p] = @ - 1]
    /\ stores' = [s \in DOMAIN stores \ {sid} |-> stores[s]]
    /\ tables' = [t \in DOMAIN tables \ {SqlName(sid)} |-> tables[t]]
    /\ proc' = [proc EXCEPT ![p] =
                  Ended(Fresh("delete", sid),
                        IF sid \in DOMAIN stores THEN Ok(204, None) ELSE Http(404))]
    /\ UNCHANGED <<models, vin, vout>>

delete_store_endpoint(p, sid) ==
    /\ CanStart(p)
    /\ nops' = [nops EXCEPT ![p] = @ - 1]
    /\ stores' = [s \in DOMAIN stores \ {sid} |-> stores[s]]
    /\ proc' = [proc EXCEPT ![p] =
                  Ended(Fresh("delete", sid),
                        IF sid \in DOMAIN stores THEN Ok(204, None) ELSE Http(404))]
    /\ UNCHANGED <<models, tables, vin, vout>>

----------------------------------------------------------------------------
(* update_store_endpoint and update_store.                                  *)

\* if store.model is not None: await _get_and_validate_model(conn, store.model);
\* the request's model and description may each be None.
update_store_endpoint(p, sid, mid, desc) ==
    /\ CanStart(p)
    /\ nops' = [nops EXCEPT ![p] = @ - 1]
    /\ LET r == [Fresh("update", sid) EXCEPT !.model = mid, !.description = desc] IN
       proc' = [proc EXCEPT ![p] =
          IF mid # None /\ mid \notin DOMAIN models
          THEN Ended(r, Http(400))
          ELSE [r EXCEPT !.pc = "u_get"]]
    /\ UNCHANGED <<models, stores, tables, vin, vout>>

\* current = await get_store(conn, store_id); None is answered 404; else
\* new_model and new_description take the current values for what is None.
update_store_get(p) ==
    /\ proc[p].pc = "u_get"
    /\ LET r == proc[p] IN
       IF r.sid \notin DOMAIN stores
       THEN Finish(p, Http(404))
       ELSE proc' = [proc EXCEPT ![p] =
               [r EXCEPT !.pc = "u_update",
                         !.model = IF r.model # None THEN r.model
                                   ELSE stores[r.sid].model,
                         !.description = IF r.description # None THEN r.description
                                         ELSE stores[r.sid].description]]
    /\ UNCHANGED <<models, stores, tables, nops, vin, vout>>

\* UPDATE stores SET model = $1, description = $2 WHERE id = $3: the
\* reference to embeddings_models(id) is checked for a row that is there;
\* with no row nothing is updated, and the response is returned all the same.
update_store_update(p) ==
    /\ proc[p].pc = "u_update"
    /\ LET r == proc[p] IN
       IF r.sid \in DOMAIN stores /\ r.model \notin DOMAIN models
       THEN /\ Finish(p, Raised("ForeignKeyViolationError"))
            /\ UNCHANGED stores
       ELSE /\ stores' = [x \in DOMAIN stores |->
                            IF x = r.sid
                            THEN [model |-> r.model, description |-> r.description]
                            ELSE stores[x]]
            /\ Finish(p, Ok(200, [id |-> r.sid, model |-> r.model]))
    /\ UNCHANGED <<models, tables, nops, vin, vout>>

----------------------------------------------------------------------------
(* delete_model and delete_embeddings_model.                                *)

\* delete_model without the reference from stores being checked.
delete_model_Unchecked(p, mid) ==
    /\ CanStart(p)
    /\ nops' = [nops EXCEPT ![p] = @ - 1]
    /\ models' = [m \in DOMAIN models \ {mid} |-> models[m]]
    /\ proc' = [proc EXCEPT ![p] =
          Ended([Fresh("delete_model", <<>>) EXCEPT !.model = mid],
                IF mid \in DOMAIN models THEN Ok(204, None) ELSE Http(404))]
    /\ UNCHANGED <<stores, tables, vin, vout>>

\* DELETE FROM embeddings_models WHERE id = $1: refused while a row of
\* stores references the model; "DELETE 0" is answered 404.
delete_model(p, mid) ==
    /\ CanStart(p)
    /\ nops' = [nops EXCEPT ![p] = @ - 1]
    /\ LET r == [Fresh("delete_model", <<>>) EXCEPT !.model = mid]
           referenced == \E x \in DOMAIN stores : stores[x].model = mid IN
       /\ models' = IF referenced THEN models
                    ELSE [m \in DOMAIN models \ {mid} |-> models[m]]
       /\ proc' = [proc EXCEPT ![p] =
             IF referenced THEN Ended(r, Raised("ForeignKeyViolationError"))
             ELSE IF mid \in DOMAIN models THEN Ended(r, Ok(204, None))
             ELSE Ended(r, Http(404))]
    /\ UNCHANGED <<stores, tables, vin, vout>>

----------------------------------------------------------------------------
(* get_pool and close_db.                                                   *)

\* if _pool is None: ... await asyncpg.create_pool(...) suspends the caller;
\* else the call returns _pool at once.
get_pool(p) ==
    /\ pool.call[p].pc \in {"idle", "got"}
    /\ pool.call[p].left > 0
    /\ pool' = [pool EXCEPT !.call[p] =
          IF pool.handle = 0
          THEN [@ EXCEPT !.pc = "create", !.got = 0, !.left = @ - 1]
          ELSE [@ EXCEPT !.pc = "got", !.got = pool.handle,
                         !.epoch = pool.closes, !.left = @ - 1]]
    /\ UNCHANGED <<models, stores, tables, proc, nops, vin, vout, hist>>

\* create_pool returns a new pool; _pool = <that pool>; return _pool.
get_pool_created(p) ==
    /\ pool.call[p].pc = "create"
    /\ pool' = [pool EXCEPT !.total = @ + 1, !.made = @ + 1,
                            !.handle = pool.total + 1,
                            !.call[p] = [@ EXCEPT !.pc = "got",
                                                  !.got = pool.total + 1,
                                                  !.epoch = pool.closes]]
    /\ UNCHANGED <<models, stores, tables, proc, nops, vin, vout, hist>>

\* if _pool is not None: await _pool.close() suspends close_db.
close_db ==
    /\ pool.closing = 0
    /\ pool.closes < MaxCloses
    /\ pool.handle # 0
    /\ pool' = [pool EXCEPT !.closing = pool.handle]
    /\ UNCHANGED <<models, stores, tables, proc, nops, vin, vout, hist>>

\* _pool = None, after the close has returned.
close_db_closed ==
    /\ pool.closing # 0
    /\ pool' = [pool EXCEPT !.closing = 0, !.handle = 0, !.made = 0,
                            !.closes = @ + 1]
    /\ UNCHANGED <<models, stores, tables, proc, nops, vin, vout, hist>>

----------------------------------------------------------------------------
(* Statements on a content table.                                           *)

\* Why a statement that reads or writes column content of {table_name} fails:
\* the name is a reserved word, or a catalog table (which has no such
\* column), or no table at all.
RelationError(name) ==
    IF SqlName(name) \in SqlReserved THEN "PostgresSyntaxError"
    ELSE IF SqlName(name) \in CatalogTables THEN "UndefinedColumnError"
    ELSE IF SqlName(name) \notin DOMAIN tables THEN "UndefinedTableError"
    ELSE None

\* SelectId with a lookup that never finds the row.
SelectId_NeverFound(tab, content) == 0

\* SELECT id FROM {table_name} WHERE content = $1, fetchrow: the id of a
\* row with that content, 0 for no row (ids start at 1).
SelectId(tab, content) ==
    IF \E r \in tab.rows : r.content = content
    THEN (CHOOSE r \in tab.rows : r.content = content).id
    ELSE 0

\* query if query else content: None and "" are both falsy.
TextToEmbed(query, content) ==
    IF query # None /\ query # "" THEN query ELSE content

\* The vector the provider returns for a text.
Embedding(model_id, text) == [text |-> text, n |-> EmbedderDims(model_id)]

\* json.dumps(metadata) if metadata else None: an empty dict is stored as NULL.
MetadataJson(meta) ==
    IF meta.kind = "dict" /\ DOMAIN meta.d # {} THEN meta ELSE MetaNone

\* $3::json of the dumped metadata: NaN is no JSON, and the cast fails.
MetadataError(meta) ==
    IF meta.kind = "dict" /\ \E k \in DOMAIN meta.d : meta.d[k].t = "nan"
    THEN "InvalidTextRepresentationError"
    ELSE None

\* The row an INSERT builds; nextval of the SERIAL id is taken before any
\* constraint is checked.
NewRow(tab, content, vec, meta) ==
    [id |-> tab.seq + 1, content |-> content, emb |-> vec.text, meta |-> MetadataJson(meta)]

\* $2::vector into a vector(dims) column
VectorError(tab, vec) ==
    IF vec.n # tab.dims THEN "DataError" ELSE None

\* Conflict for a constraint that never fires.
Conflict_Never(tab, content) == FALSE

\* The UNIQUE constraint on content.
Conflict(tab, content) ==
    tab.uniq /\ \E r \in tab.rows : r.content = content

\* INSERT INTO {table_name} (content, embedding, metadata) ... RETURNING id
InsertError(tab, content, vec) ==
    IF VectorError(tab, vec) # None THEN VectorError(tab, vec)
    ELSE IF Conflict(tab, content) THEN "UniqueViolationError"
    ELSE None

\* The table after an INSERT was tried: a failed one has used up an id.
AfterInsert(tab, content, vec, meta, inserted) ==
    [tab EXCEPT !.seq = @ + 1,
                !.rows = IF inserted THEN @ \cup {NewRow(tab, content, vec, meta)} ELSE @]

\* The same with ON CONFLICT (content) DO NOTHING, which needs the constraint.
InsertOnConflictError(tab, content, vec) ==
    IF ~tab.uniq THEN "InvalidColumnReferenceError"
    ELSE VectorError(tab, vec)

----------------------------------------------------------------------------
(* embed_content_endpoint and embed_content.                                *)

StoreEmbedResponse(id, content, dimensions, created) ==
    [id |-> id, content |-> content, dimensions |-> dimensions, created |-> created]

\* store = await get_store(conn, store_id), then the arguments of the call
\* are read (request.metadata among them) and embed_content checks the name.
embed_content_endpoint(p, sid, content, query, meta) ==
    /\ CanStart(p)
    /\ nops' = [nops EXCEPT ![p] = @ - 1]
    /\ LET r == [Fresh("embed", sid) EXCEPT
                    !.content = content, !.query = query, !.meta = meta] IN
       proc' = [proc EXCEPT ![p] =
          IF sid \notin DOMAIN stores
          THEN Ended(r, Http(404))
          ELSE IF meta.kind = "noattr"
          THEN Ended(r, Raised("AttributeError"))
          ELSE IF ~ValidateTableName(sid)
          THEN Ended(r, Raised("ValueError"))
          ELSE [r EXCEPT !.pc = "e_select", !.model = stores[sid].model]]
    /\ UNCHANGED <<models, stores, tables, vin, vout>>

\* embed_content_select going on to the Embedder although the row is there.
embed_content_select_Always(p) ==
    /\ proc[p].pc = "e_select"
    /\ IF RelationError(proc[p].sid) # None
       THEN Finish(p, Raised(RelationError(proc[p].sid)))
       ELSE proc' = [proc EXCEPT ![p].pc = "e_embed"]
    /\ UNCHANGED <<models, stores, tables, nops, vin, vout>>

\* embed_content_select writing the new metadata over an existing row's.
embed_content_select_Overwrite(p) ==
    /\ proc[p].pc = "e_select"
    /\ LET r == proc[p]
           t == SqlName(r.sid)
           err == RelationError(r.sid)
           id == SelectId(tables[t], r.content) IN
       IF err # None
       THEN Finish(p, Raised(err)) /\ UNCHANGED tables
       ELSE IF id # 0
       THEN /\ Finish(p, Ok(200, StoreEmbedResponse(id, r.content, 0, FALSE)))
            /\ tables' = [tables EXCEPT ![t].rows =
                            {IF x.id = id THEN [x EXCEPT !.meta = MetadataJson(r.meta)]
                                          ELSE x : x \in @}]
       ELSE proc' = [proc EXCEPT ![p].pc = "e_embed"] /\ UNCHANGED tables
    /\ UNCHANGED <<models, stores, nops, vin, vout>>

\* existing = await conn.fetchrow("SELECT id FROM ... WHERE content = $1")
embed_content_select(p) ==
    /\ proc[p].pc = "e_select"
    /\ LET r == proc[p]
           err == RelationError(r.sid)
           id == SelectId(tables[SqlName(r.sid)], r.content) IN
       IF err # None THEN Finish(p, Raised(err))
       ELSE IF id # 0
       THEN Finish(p, Ok(200, StoreEmbedResponse(id, r.content, 0, FALSE)))
       ELSE proc' = [proc EXCEPT ![p].pc = "e_embed"]
    /\ UNCHANGED <<models, stores, tables, nops, vin, vout>>

\* embed_content_embed with the row written before the provider has answered.
embed_content_embed_WriteFirst(p) ==
    /\ proc[p].pc = "e_embed"
    /\ LET r == proc[p]
           text == TextToEmbed(r.query, r.content) IN
       \/ /\ proc' = [proc EXCEPT ![p] =
                    [@ EXCEPT !.pc = "e_insert",
                              !.calls = Append(@, <<text>>),
                              !.vec = Embedding(r.model, text)]]
          /\ UNCHANGED tables
       \/ /\ proc' = [proc EXCEPT ![p] =
                    Ended([@ EXCEPT !.calls = Append(@, <<text>>)], Raised("EmbedderError"))]
          /\ tables' = [tables EXCEPT ![SqlName(r.sid)] =
                          AfterInsert(@, r.content, Embedding(r.model, text), r.meta, TRUE)]
    /\ UNCHANGED <<models, stores, nops, vin, vout>>

\* embedding_response = await embeddings_service.embed_query(model_id, text)
embed_content_embed(p) ==
    /\ proc[p].pc = "e_embed"
    /\ LET r == proc[p]
           text == TextToEmbed(r.query, r.content) IN
       \/ proc' = [proc EXCEPT ![p] =
                    [@ EXCEPT !.pc = "e_insert",
                              !.calls = Append(@, <<text>>),
                              !.vec = Embedding(r.model, text)]]
       \/ proc' = [proc EXCEPT ![p] =
                    Ended([@ EXCEPT !.calls = Append(@, <<text>>)], Raised("EmbedderError"))]
    /\ UNCHANGED <<models, stores, tables, nops, vin, vout>>

\* row = await conn.fetchrow("INSERT INTO ... RETURNING id")
embed_content_insert(p) ==
    /\ proc[p].pc = "e_insert"
    /\ LET r == proc[p]
           t == SqlName(r.sid) IN
       IF RelationError(r.sid) # None
       THEN /\ Finish(p, Raised(RelationError(r.sid)))
            /\ UNCHANGED tables
       ELSE IF MetadataError(r.meta) # None
       THEN /\ Finish(p, Raised(MetadataError(r.meta)))
            /\ UNCHANGED tables
       ELSE LET err == InsertError(tables[t], r.content, r.vec) IN
            /\ tables' = [tables EXCEPT ![t] =
                            AfterInsert(@, r.content, r.vec, r.meta, err = None)]
            /\ IF err # None
               THEN Finish(p, Raised(err))
               ELSE Finish(p, Ok(200, StoreEmbedResponse(
                        tables[t].seq + 1, r.content, r.vec.n, TRUE)))
    /\ UNCHANGED <<models, stores, nops, vin, vout>>

----------------------------------------------------------------------------
(* embed_content_batch_endpoint and embed_content_batch.                    *)

StoreBatchEmbedResponse(results, items, created, skipped) ==
    [results |-> results, total |-> Len(items), created |-> created, skipped |-> skipped]

\* embed_content_batch_endpoint without the 404 for an unknown store.
embed_content_batch_endpoint_NoLookup(p, sid, items) ==
    /\ CanStart(p)
    /\ nops' = [nops EXCEPT ![p] = @ - 1]
    /\ LET r == [Fresh("batch", sid) EXCEPT !.items = items] IN
       proc' = [proc EXCEPT ![p] =
          IF items = <<>>
          THEN Ended(r, Http(400))
          ELSE IF ~ValidateTableName(sid)
          THEN Ended(r, Raised("ValueError"))
          ELSE [r EXCEPT !.pc = "b_select",
                         !.model = IF sid \in DOMAIN stores THEN stores[sid].model ELSE None]]
    /\ UNCHANGED <<models, stores, tables, vin, vout>>

\* if not request.items: 400; store = await get_store(conn, store_id); then
\* embed_content_batch checks the name.
embed_content_batch_endpoint(p, sid, items) ==
    /\ CanStart(p)
    /\ nops' = [nops EXCEPT ![p] = @ - 1]
    /\ LET r == [Fresh("batch", sid) EXCEPT !.items = items] IN
       proc' = [proc EXCEPT ![p] =
          IF items = <<>>
          THEN Ended(r, Http(400))
          ELSE IF sid \notin DOMAIN stores
          THEN Ended(r, Http(404))
          ELSE IF ~ValidateTableName(sid)
          THEN Ended(r, Raised("ValueError"))
          ELSE [r EXCEPT !.pc = "b_select", !.model = stores[sid].model]]
    /\ UNCHANGED <<models, stores, tables, vin, vout>>

\* existing_map = {row["content"]: row["id"] for row in existing_rows}, of
\* SELECT id, content FROM {table_name} WHERE content = ANY($1)
ExistingMap(tab, items) ==
    [c \in {r.content : r \in {x \in tab.rows : \E k \in DOMAIN items : items[k].content = x.content}}
        |-> SelectId(tab, c)]

\* SkippedResults with the found items taken last to first.
SkippedResults_Reversed(items, existing_map) ==
    LET found == SelectSeq(items, LAMBDA it : it.content \in DOMAIN existing_map) IN
    [k \in DOMAIN found |->
        StoreEmbedResponse(existing_map[found[Len(found) + 1 - k].content],
                           found[Len(found) + 1 - k].content, 0, FALSE)]

\* The first loop: a result for every item found by the lookup, in input order.
SkippedResults(items, existing_map) ==
    LET found == SelectSeq(items, LAMBDA it : it.content \in DOMAIN existing_map) IN
    [k \in DOMAIN found |->
        StoreEmbedResponse(existing_map[found[k].content], found[k].content, 0, FALSE)]

\* NewItems keeping every item of the batch.
NewItems_All(items, existing_map) == items

\* new_items, in input order.
NewItems(items, existing_map) ==
    SelectSeq(items, LAMBDA it : it.content \notin DOMAIN existing_map)

embed_content_batch_select(p) ==
    /\ proc[p].pc = "b_select"
    /\ LET r == proc[p]
           err == RelationError(r.sid)
           existing_map == ExistingMap(tables[SqlName(r.sid)], r.items)
           results == SkippedResults(r.items, existing_map)
           new_items == NewItems(r.items, existing_map) IN
       IF err # None THEN Finish(p, Raised(err))
       ELSE IF new_items = <<>>
       THEN Finish(p, Ok(200, StoreBatchEmbedResponse(
                                results, r.items, 0, Len(results))))
       ELSE proc' = [proc EXCEPT ![p] =
                [@ EXCEPT !.pc = "b_embed", !.results = results,
                          !.skipped = Len(results), !.newItems = new_items]]
    /\ UNCHANGED <<models, stores, tables, nops, vin, vout>>

\* texts_to_embed
TextsToEmbed(new_items) ==
    [k \in DOMAIN new_items |-> TextToEmbed(new_items[k].query, new_items[k].content)]

\* embeddings_response = await embeddings_service.embed_documents(model_id, texts)
embed_content_batch_embed(p) ==
    /\ proc[p].pc = "b_embed"
    /\ LET r == proc[p]
           texts == TextsToEmbed(r.newItems) IN
       \/ proc' = [proc EXCEPT ![p] =
                    [@ EXCEPT !.pc = "b_insert", !.i = 1,
                              !.calls = Append(@, texts)]]
       \/ proc' = [proc EXCEPT ![p] =
                    Ended([@ EXCEPT !.calls = Append(@, texts)], Raised("EmbedderError"))]
    /\ UNCHANGED <<models, stores, tables, nops, vin, vout>>

\* BatchNext with the counters left as they were before the round.
BatchNext_NoCount(r, result, created_count, skipped_count) ==
    LET results == Append(r.results, result) IN
    IF r.i < Len(r.newItems)
    THEN [r EXCEPT !.pc = "b_insert", !.i = @ + 1, !.results = results]
    ELSE Ended(r, Ok(200, StoreBatchEmbedResponse(
                      results, r.items, r.created, r.skipped)))

\* The end of one round of the insert loop: the next new item, or the response.
BatchNext(r, result, created_count, skipped_count) ==
    LET results == Append(r.results, result) IN
    IF r.i < Len(r.newItems)
    THEN [r EXCEPT !.pc = "b_insert", !.i = @ + 1, !.results = results,
                   !.created = created_count, !.skipped = skipped_count]
    ELSE Ended(r, Ok(200, StoreBatchEmbedResponse(
                      results, r.items, created_count, skipped_count)))

\* embed_content_batch_insert with a failure that takes the batch's rows back.
embed_content_batch_insert_Rollback(p) ==
    /\ proc[p].pc = "b_insert"
    /\ LET r == proc[p]
           t == SqlName(r.sid)
           item == r.newItems[r.i]
           vec == Embedding(r.model, TextsToEmbed(r.newItems)[r.i]) IN
       IF MetadataError(item.meta) # None
       THEN /\ Finish(p, Raised(MetadataError(item.meta)))
            /\ tables' = [tables EXCEPT ![t].rows =
                            {x \in @ : \A k \in DOMAIN r.newItems :
                                          r.newItems[k].content # x.content}]
       ELSE /\ tables' = [tables EXCEPT ![t] =
                            AfterInsert(@, item.content, vec, item.meta,
                                        ~Conflict(tables[t], item.content))]
            /\ proc' = [proc EXCEPT ![p] =
                  IF ~Conflict(tables[t], item.content)
                  THEN BatchNext(r, StoreEmbedResponse(
                            tables[t].seq + 1, item.content, vec.n, TRUE),
                            r.created + 1, r.skipped)
                  ELSE [r EXCEPT !.pc = "b_reread"]]
    /\ UNCHANGED <<models, stores, nops, vin, vout>>

\* One round of the insert loop up to its await: item.metadata is read, then
\* row = await conn.fetchrow("INSERT ... ON CONFLICT (content) DO NOTHING RETURNING id")
embed_content_batch_insert(p) ==
    /\ proc[p].pc = "b_insert"
    /\ LET r == proc[p]
           t == SqlName(r.sid)
           item == r.newItems[r.i]
           vec == Embedding(r.model, TextsToEmbed(r.newItems)[r.i]) IN
       IF item.meta.kind = "noattr"
       THEN /\ Finish(p, Raised("AttributeError"))
            /\ UNCHANGED tables
       ELSE IF RelationError(r.sid) # None
       THEN /\ Finish(p, Raised(RelationError(r.sid)))
            /\ UNCHANGED tables
       ELSE IF MetadataError(item.meta) # None
       THEN /\ Finish(p, Raised(MetadataError(item.meta)))
            /\ UNCHANGED tables
       ELSE IF InsertOnConflictError(tables[t], item.content, vec) # None
       THEN /\ Finish(p, Raised(InsertOnConflictError(tables[t], item.content, vec)))
            /\ tables' = [tables EXCEPT ![t] =
                            AfterInsert(@, item.content, vec, item.meta, FALSE)]
       ELSE LET inserted == ~Conflict(tables[t], item.content) IN
            /\ tables' = [tables EXCEPT ![t] =
                            AfterInsert(@, item.content, vec, item.meta, inserted)]
            /\ proc' = [proc EXCEPT ![p] =
                  IF inserted
                  THEN BatchNext(r, StoreEmbedResponse(
                            tables[t].seq + 1, item.content, vec.n, TRUE),
                            r.created + 1, r.skipped)
                  ELSE [r EXCEPT !.pc = "b_reread"]]
    /\ UNCHANGED <<models, stores, nops, vin, vout>>

\* embed_content_batch_reread taking the fallback id although the row is there.
embed_content_batch_reread_Zero(p) ==
    /\ proc[p].pc = "b_reread"
    /\ LET r == proc[p]
           item == r.newItems[r.i] IN
       proc' = [proc EXCEPT ![p] =
                BatchNext(r, StoreEmbedResponse(0, item.content, 0, FALSE),
                          r.created, r.skipped + 1)]
    /\ UNCHANGED <<models, stores, tables, nops, vin, vout>>

\* embed_content_batch_reread reporting the item as created.
embed_content_batch_reread_Created(p) ==
    /\ proc[p].pc = "b_reread"
    /\ LET r == proc[p]
           item == r.newItems[r.i] IN
       proc' = [proc EXCEPT ![p] =
                BatchNext(r, StoreEmbedResponse(
                    SelectId(tables[SqlName(r.sid)], item.content), item.content, 0, TRUE),
                    r.created + 1, r.skipped)]
    /\ UNCHANGED <<models, stores, tables, nops, vin, vout>>

\* The insert returned no row: existing = await conn.fetchrow("SELECT id ...")
embed_content_batch_reread(p) ==
    /\ proc[p].pc = "b_reread"
    /\ LET r == proc[p]
           item == r.newItems[r.i] IN
       IF RelationError(r.sid) # None
       THEN Finish(p, Raised(RelationError(r.sid)))
       ELSE proc' = [proc EXCEPT ![p] =
                BatchNext(r, StoreEmbedResponse(
                    SelectId(tables[SqlName(r.sid)], item.content), item.content, 0, FALSE),
                    r.created, r.skipped + 1)]
    /\ UNCHANGED <<models, stores, tables, nops, vin, vout>>

----------------------------------------------------------------------------
(* query_store_endpoint and query_store.                                    *)

\* A metadata value: a JSON string, number or boolean, v its JSON text.
JsonStr(v) == [t |-> "str", v |-> v]
JsonBool(v) == [t |-> "bool", v |-> v]
JsonInt(v) == [t |-> "int", v |-> v]
\* float("nan"), which json.dumps writes as the token NaN.
JsonNaN == [t |-> "nan", v |-> "NaN"]

\* str(value) of the filter value, the bound parameter of the comparison.
PyStr(value) ==
    IF value.t = "bool" THEN (IF value.v = "true" THEN "True" ELSE "False")
    ELSE value.v

\* metadata ->> 'key' of a stored value: its text.
JsonText(value) == value.v

\* No max_distance, and one.
NoDistance == <<>>
MaxDistance(d) == <<d>>

\* embedding <=> $1::vector between the vectors of two texts: the cosine
\* distance, 0 for the same direction, 2 for opposite ones.
Distance(a, b) == IF a = b THEN 0 ELSE 2

\* store = await get_store(conn, store_id), then the arguments of the call
\* are read (request.metadata among them) and query_store checks the name.
query_store_endpoint(p, sid, query, limit, max_distance, filters) ==
    /\ CanStart(p)
    /\ nops' = [nops EXCEPT ![p] = @ - 1]
    /\ LET r == [Fresh("query", sid) EXCEPT
                    !.query = query, !.meta = filters, !.limit = limit,
                    !.max_distance = max_distance] IN
       proc' = [proc EXCEPT ![p] =
          IF sid \notin DOMAIN stores
          THEN Ended(r, Http(404))
          ELSE IF filters.kind = "noattr"
          THEN Ended(r, Raised("AttributeError"))
          ELSE IF ~ValidateTableName(sid)
          THEN Ended(r, Raised("ValueError"))
          ELSE [r EXCEPT !.pc = "q_embed", !.model = stores[sid].model]]
    /\ UNCHANGED <<models, stores, tables, vin, vout>>

\* The loop over metadata_filters.items(): TRUE when every key passes
\* _validate_metadata_key (if metadata_filters: None and {} are skipped).
FilterKeysValid(filters) ==
    \A key \in DOMAIN filters.d : ValidateMetadataKey(key)

\* embedding_response = await embeddings_service.embed_query(model_id, query),
\* then the WHERE clause is built, each filter key checked on the way.
query_store_embed(p) ==
    /\ proc[p].pc = "q_embed"
    /\ LET r == proc[p] IN
       \/ proc' = [proc EXCEPT ![p] =
                    IF FilterKeysValid(r.meta)
                    THEN [@ EXCEPT !.pc = "q_fetch", !.calls = Append(@, <<r.query>>)]
                    ELSE Ended([@ EXCEPT !.calls = Append(@, <<r.query>>)],
                               Raised("ValueError"))]
       \/ proc' = [proc EXCEPT ![p] =
                    Ended([@ EXCEPT !.calls = Append(@, <<r.query>>)],
                          Raised("EmbedderError"))]
    /\ UNCHANGED <<models, stores, tables, nops, vin, vout>>

\* WHERE embedding <=> $1::vector <= $2 AND metadata ->> 'key' = $3 ...
Qualifying(tab, query, max_distance, filters) ==
    {r \in tab.rows :
        /\ max_distance # NoDistance => Distance(r.emb, query) <= max_distance[1]
        /\ \A key \in DOMAIN filters.d :
              /\ key \in DOMAIN r.meta.d
              /\ JsonText(r.meta.d[key]) = PyStr(filters.d[key])}

Min(a, b) == IF a <= b THEN a ELSE b

\* Ranked without the ORDER BY: any n of the qualifying rows, in any order.
Ranked_AnyOrder(tab, query, limit, max_distance, filters) ==
    LET q == Qualifying(tab, query, max_distance, filters)
        n == Min(limit, Cardinality(q)) IN
    {s \in [1..n -> q] : \A i, j \in 1..n : i < j => s[i] # s[j]}

\* ORDER BY distance LIMIT n: every order the backend may return (rows at
\* the same distance come in any order).
Ranked(tab, query, limit, max_distance, filters) ==
    LET q == Qualifying(tab, query, max_distance, filters)
        n == Min(limit, Cardinality(q)) IN
    {s \in [1..n -> q] :
        /\ \A i, j \in 1..n : i < j => s[i] # s[j]
        /\ \A i, j \in 1..n : i < j => Distance(s[i].emb, query) <= Distance(s[j].emb, query)
        /\ \A x \in q : (\A i \in 1..n : s[i] # x) =>
              \A i \in 1..n : Distance(s[i].emb, query) <= Distance(x.emb, query)}

StoreQueryResult(row, query) ==
    [id |-> row.id, content |-> row.content, distance |-> Distance(row.emb, query)]

\* query_store_fetch taking the rows it returns out of the table.
query_store_fetch_Consume(p) ==
    /\ proc[p].pc = "q_fetch"
    /\ LET r == proc[p] IN
       IF RelationError(r.sid) # None
       THEN /\ Finish(p, Raised(RelationError(r.sid)))
            /\ UNCHANGED tables
       ELSE \E rows \in Ranked(tables[SqlName(r.sid)], r.query, r.limit, r.max_distance, r.meta) :
               /\ Finish(p, Ok(200,
                     [query |-> r.query,
                      results |-> [k \in DOMAIN rows |-> StoreQueryResult(rows[k], r.query)],
                      count |-> Len(rows)]))
               /\ tables' = [tables EXCEPT ![SqlName(r.sid)].rows =
                               @ \ {rows[k] : k \in DOMAIN rows}]
    /\ UNCHANGED <<models, stores, nops, vin, vout>>

\* rows = await conn.fetch("SELECT id, content, ... ORDER BY distance LIMIT ...")
query_store_fetch(p) ==
    /\ proc[p].pc = "q_fetch"
    /\ LET r == proc[p] IN
       IF RelationError(r.sid) # None
       THEN Finish(p, Raised(RelationError(r.sid)))
       ELSE \E rows \in Ranked(tables[SqlName(r.sid)], r.query, r.limit, r.max_distance, r.meta) :
               Finish(p, Ok(200,
                   [query |-> r.query,
                    results |-> [k \in DOMAIN rows |-> StoreQueryResult(rows[k], r.query)],
                    count |-> Len(rows)]))
    /\ UNCHANGED <<models, stores, tables, nops, vin, vout>>

----------------------------------------------------------------------------
(* The identifier checks on their own.                                      *)

Alphabet == {"a", "Z", "_", "7", ";", " ", "\n"}

\* Every string over the alphabet of at most MaxNameLen characters.
Names == UNION {[1..n -> Alphabet] : n \in 0..MaxNameLen}

NotChecked == [table |-> "none", key |-> "none"]

validate_table_name ==
    /\ vout.table = "pending"
    /\ vout' = [vout EXCEPT !.table =
                  IF ValidateTableName(vin) THEN "returned" ELSE "ValueError"]
    /\ UNCHANGED <<models, stores, tables, proc, nops, vin>>

validate_metadata_key ==
    /\ vout.key = "pending"
    /\ vout' = [vout EXCEPT !.key =
                  IF ValidateMetadataKey(vin) THEN "returned" ELSE "ValueError"]
    /\ UNCHANGED <<models, stores, tables, proc, nops, vin>>

----------------------------------------------------------------------------
(* Initial states.                                                          *)

EmptyMap == [x \in {} |-> None]

\* The database right after init_db on an empty one.
InitEmpty ==
    /\ models = EmptyMap
    /\ stores = EmptyMap
    /\ tables = EmptyMap

S1 == <<"s">>

\* A database in which model m1 and store s were created, s still empty.
InitStore ==
    /\ models = [m \in {"m1"} |-> [dimensions |-> EmbedderDims("m1")]]
    /\ stores = [s \in {S1} |-> [model |-> "m1", description |-> "d"]]
    /\ tables = [t \in {SqlName(S1)} |-> NewTable(EmbedderDims("m1"))]

\* _pool: asyncpg.Pool | None = None, no pool made yet, nobody in get_pool.
\* Pools are numbered from 1 as create_pool makes them; 0 stands for None.
NoPool ==
    [handle |-> 0, total |-> 0, made |-> 0, closing |-> 0, closes |-> 0,
     call |-> [p \in Workers |->
                 [pc |-> "idle", got |-> 0, epoch |-> 0, left |-> MaxPoolCalls]]]

NoHist == [before |-> [stores |-> EmptyMap, tables |-> EmptyMap], prev |-> Idle]

InitRest(n1, n2) ==
    /\ proc = [p \in Workers |-> Idle]
    /\ nops = [p \in Workers |-> IF p = 1 THEN n1 ELSE n2]
    /\ vin = <<>>
    /\ vout = NotChecked
    /\ hist = NoHist
    /\ pool = NoPool

----------------------------------------------------------------------------
(* The requests the clients send.                                           *)

S1Upper == <<"S">>
Digit1 == <<"1">>
WordAs == <<"a","s">>
S1Newline == <<"s","\n">>

\* Store ids of create and delete requests: two that differ in case only, one
\* that starts with a digit, a reserved word, the name of a catalog table,
\* and one with a newline at its end.
StoreIds == {S1, S1Upper, Digit1, WordAs, StoresTable, S1Newline}

\* Store ids of ingest and query requests.
IngestIds == {S1}

RequestModels == {"m1", "m2"}

Lang == <<"l">>
LangEn == MetaDict(Lang :> JsonStr("en"))

StoreEmbedRequest(content, query, meta) ==
    [content |-> content, query |-> query, meta |-> meta]

\* Bodies of POST /stores/{id}/embed; the last is what the declared schema
\* yields, an object without a metadata attribute.
EmbedRequests ==
    { StoreEmbedRequest("a", None, MetaNone),
      StoreEmbedRequest("a", "q", LangEn),
      StoreEmbedRequest("a", None, MetaNoAttr) }

\* The same, and two with blank content.
EmbedRequestsSeq ==
    EmbedRequests \cup
    { StoreEmbedRequest("", None, MetaNone),
      StoreEmbedRequest(" ", "", MetaNone) }

BatchItems ==
    { StoreEmbedRequest("a", None, MetaNone),
      StoreEmbedRequest("b", "q", LangEn) }

\* Bodies of POST /stores/{id}/embed/batch: up to n items, and one whose item
\* is what the declared schema yields.
BatchesUpTo(n) ==
    UNION {[1..k -> BatchItems] : k \in 0..n}
    \cup { <<StoreEmbedRequest("b", None, MetaNoAttr)>> }

Batches == BatchesUpTo(MaxBatch)

\* The batches of a client that has the store to itself.
BatchesSeq == BatchesUpTo(MaxSeqBatch)

BadKey == <<"l", ";">>

QueryFilters ==
    { MetaNone, LangEn, MetaDict(BadKey :> JsonStr("en")), MetaNoAttr }

\* Bodies of POST /stores/{id}/query.
QueryRequests ==
    [query : {"a"}, limit : {1, 10}, max_distance : {NoDistance, MaxDistance(1)},
     filters : QueryFilters]

\* Metadata of one key with a string, a boolean and an integer value (each
\* written as its JSON text), and none.
MetaValues == {JsonStr("en"), JsonStr("fr"), JsonBool("true"), JsonInt("1")}

MetaChoices == {MetaNone} \cup {MetaDict(Lang :> v) : v \in MetaValues}

\* Calls of embed_content and of query_store with such metadata.
EmbedRequestsMeta ==
    {StoreEmbedRequest(c, None, m) : c \in {"a", "b"}, m \in MetaChoices}

QueryRequestsMeta ==
    [query : {"a"}, limit : {10}, max_distance : {NoDistance},
     filters : MetaChoices \cup {MetaDict(EmptyMap)}]

\* An item whose metadata the backend will not take, and the requests of a
\* client that sends such items among others.
MetaNaN == MetaDict(Lang :> JsonNaN)

EmbedRequestsNaN ==
    EmbedRequests \cup {StoreEmbedRequest("b", None, MetaNaN)}

BatchesNaN ==
    UNION {[1..k -> BatchItems \cup {StoreEmbedRequest("c", None, MetaNaN)}] :
              k \in 1..MaxBatch}

----------------------------------------------------------------------------
(* Next-state relations.                                                    *)

CatalogStepWith(p, ids, dimensions, descriptions) ==
    \/ \E mid \in ModelIds, dims \in dimensions : upsert_embeddings_model(p, mid, dims)
    \/ \E sid \in ids, mid \in RequestModels, desc \in descriptions :
          create_store_endpoint(p, sid, mid, desc)
    \/ create_store_exists(p)
    \/ create_store_insert(p)
    \/ create_store_table(p)
    \/ \E sid \in ids : delete_store_endpoint(p, sid)

CatalogStep(p, ids) == CatalogStepWith(p, ids, DimChoices, Descriptions)

UpdateStep(p, ids) ==
    \/ \E sid \in ids, mid \in RequestModels \cup {None}, desc \in {None, "e"} :
          update_store_endpoint(p, sid, mid, desc)
    \/ update_store_get(p)
    \/ update_store_update(p)

EmbedStep(p, ids, requests) ==
    \/ \E sid \in ids, rq \in requests :
          embed_content_endpoint(p, sid, rq.content, rq.query, rq.meta)
    \/ embed_content_select(p)
    \/ embed_content_embed(p)
    \/ embed_content_insert(p)

BatchStep(p, ids, batches) ==
    \/ \E sid \in ids, items \in batches : embed_content_batch_endpoint(p, sid, items)
    \/ embed_content_batch_select(p)
    \/ embed_content_batch_embed(p)
    \/ embed_content_batch_insert(p)
    \/ embed_content_batch_reread(p)

QueryStep(p, ids, requests) ==
    \/ \E sid \in ids, rq \in requests :
          query_store_endpoint(p, sid, rq.query, rq.limit, rq.max_distance, rq.filters)
    \/ query_store_embed(p)
    \/ query_store_fetch(p)

\* Spec: two clients ingest concurrently into an existing store, the first
\* up to MaxOps requests one after another, the second up to MaxOps2.
Next ==
    /\ \E p \in Workers :
          \/ EmbedStep(p, IngestIds, EmbedRequests)
          \/ BatchStep(p, IngestIds, Batches)
    /\ UNCHANGED <<hist, pool>>

Init == InitStore /\ InitRest(MaxOps, MaxOps2)

Spec == Init /\ [][Next]_vars

\* SpecCatalog: two clients create and delete stores concurrently on a
\* database that starts empty.
NextCatalog ==
    /\ \E p \in Workers : CatalogStep(p, StoreIds)
    /\ UNCHANGED <<hist, pool>>

InitCatalog == InitEmpty /\ InitRest(MaxOps, MaxOps)

SpecCatalog == InitCatalog /\ [][NextCatalog]_vars

\* What the observer notes when the client sends a request: the tables as
\* they are then, and the request that has just ended.
Observe ==
    IF nops'[1] # nops[1]
    THEN hist' = [before |-> [stores |-> stores, tables |-> tables],
                  prev |-> proc[1]]
    ELSE hist' = hist

\* SpecSeq: a single client sends up to MaxSeqOps requests of any kind, one
\* after another, and nobody else writes.
NextSeq ==
    /\ \/ CatalogStep(1, StoreIds)
       \/ EmbedStep(1, IngestIds \cup {S1Upper}, EmbedRequestsSeq)
       \/ BatchStep(1, IngestIds, BatchesSeq)
       \/ QueryStep(1, IngestIds, QueryRequests)
    /\ Observe
    /\ UNCHANGED pool

InitSeq == InitStore /\ InitRest(MaxSeqOps, 0)

SpecSeq == InitSeq /\ [][NextSeq]_vars

\* SpecValidate: the two identifier checks applied to every short string.
\* SpecCatalogSeq: a single client registers models and creates and deletes
\* stores, up to MaxCatalogOps requests one after another.
CatalogIdsSeq == {S1, Digit1}
DimChoicesSeq == {0, 2, 3}
DescriptionsSeq == {"d", "e"}

InitCatalogSeq == InitStore /\ InitRest(MaxCatalogOps, 0)

NextCatalogSeq ==
    /\ CatalogStepWith(1, CatalogIdsSeq, DimChoicesSeq, DescriptionsSeq)
    /\ Observe
    /\ UNCHANGED pool

SpecCatalogSeq == InitCatalogSeq /\ [][NextCatalogSeq]_vars

\* SpecPartial: a single client sends single and batch ingests, some with
\* items that make the insert fail.
NextPartial ==
    /\ \/ EmbedStep(1, IngestIds, EmbedRequestsNaN \cup {StoreEmbedRequest("b", None, MetaNone)})
       \/ BatchStep(1, IngestIds, BatchesNaN)
    /\ Observe
    /\ UNCHANGED pool

SpecPartial == InitSeq /\ [][NextPartial]_vars

\* SpecRows: a single client ingests, queries, and creates, updates and
\* deletes the store.
NextRows ==
    /\ \/ EmbedStep(1, IngestIds, EmbedRequests)
       \/ BatchStep(1, IngestIds, Batches)
       \/ QueryStep(1, IngestIds, QueryRequests)
       \/ CatalogStep(1, IngestIds)
       \/ UpdateStep(1, IngestIds)
    /\ Observe
    /\ UNCHANGED pool

SpecRows == InitSeq /\ [][NextRows]_vars

\* SpecRecreate: a single client ingests into the store, deletes it and
\* creates it again, up to MaxRecreateOps requests one after another.
InitRecreate == InitStore /\ InitRest(MaxRecreateOps, 0)

NextRecreate ==
    /\ \/ EmbedStep(1, IngestIds, EmbedRequests)
       \/ CatalogStep(1, IngestIds)
    /\ Observe
    /\ UNCHANGED pool

SpecRecreate == InitRecreate /\ [][NextRecreate]_vars

\* SpecCreateRace: on a database with model m1 and no store, two clients
\* send up to MaxRaceOps create-store requests each, concurrently.
InitCreateRace ==
    /\ models = [m \in {"m1"} |-> [dimensions |-> EmbedderDims("m1")]]
    /\ stores = EmptyMap
    /\ tables = EmptyMap
    /\ InitRest(MaxRaceOps, MaxRaceOps)

CreateStep(p, ids) ==
    \/ \E sid \in ids, mid \in RequestModels, desc \in DescriptionsSeq :
          create_store_endpoint(p, sid, mid, desc)
    \/ create_store_exists(p)
    \/ create_store_insert(p)
    \/ create_store_table(p)

NextCreateRace ==
    /\ \E p \in Workers : CreateStep(p, StoreIds)
    /\ UNCHANGED <<hist, pool>>

SpecCreateRace == InitCreateRace /\ [][NextCreateRace]_vars

\* SpecRefs: two clients register and delete models and create, update and
\* delete the store, concurrently.
InitRefs == InitStore /\ InitRest(MaxOps, MaxOps2)

NextRefs ==
    /\ \E p \in Workers :
          \/ CatalogStep(p, IngestIds)
          \/ UpdateStep(p, IngestIds)
          \/ \E mid \in RequestModels :
                upsert_embeddings_model(p, mid, EmbedderDims(mid))
          \/ \E mid \in RequestModels : delete_model(p, mid)
    /\ UNCHANGED <<hist, pool>>

SpecRefs == InitRefs /\ [][NextRefs]_vars

\* SpecQuery: a single client ingests, creates and deletes stores of any id
\* and queries them, up to MaxSeqOps requests one after another.
NextQuery ==
    /\ \/ EmbedStep(1, IngestIds, EmbedRequests)
       \/ CatalogStep(1, StoreIds)
       \/ QueryStep(1, StoreIds, QueryRequests)
    /\ Observe
    /\ UNCHANGED pool

SpecQuery == InitSeq /\ [][NextQuery]_vars

\* SpecPool: two callers of get_pool (init_db, the endpoints) and the
\* lifespan's close_db, in any interleaving.
InitPool == InitEmpty /\ InitRest(0, 0)

NextPool ==
    \/ \E p \in Workers : get_pool(p) \/ get_pool_created(p)
    \/ close_db
    \/ close_db_closed

SpecPool == InitPool /\ [][NextPool]_vars

\* SpecFilter: a single client ingests records with metadata and queries the
\* store with metadata filters.
NextFilter ==
    /\ \/ EmbedStep(1, IngestIds, EmbedRequestsMeta)
       \/ QueryStep(1, IngestIds, QueryRequestsMeta)
    /\ UNCHANGED <<hist, pool>>

SpecFilter == InitSeq /\ [][NextFilter]_vars

InitValidate ==
    /\ InitEmpty
    /\ proc = [p \in Workers |-> Idle]
    /\ nops = [p \in Workers |-> 0]
    /\ vin \in Names
    /\ vout = [table |-> "pending", key |-> "pending"]
    /\ hist = NoHist
    /\ pool = NoPool

NextValidate ==
    /\ \/ validate_table_name
       \/ validate_metadata_key
    /\ UNCHANGED <<hist, pool>>

SpecValidate == InitValidate /\ [][NextValidate]_vars

----------------------------------------------------------------------------
(* Properties.                                                              *)

Done(p, op) == proc[p].pc = "done" /\ proc[p].op = op

Returned(p, op) == Done(p, op) /\ proc[p].res.kind = "ok"

Contents(tab) == {r.content : r \in tab.rows}

\* C1: after any interleaving of single and batch ingests, a content table
\* holds at most one row for each content string.
C1_ContentUnique ==
    \A t \in DOMAIN tables :
        \A r1, r2 \in tables[t].rows : r1.content = r2.content => r1 = r2

\* A single ingest lost the insert to a concurrent batch that created rows,
\* and the content is in the table.
C1_Witness ==
    \E p, q \in Workers :
        /\ p # q
        /\ Done(p, "embed") /\ proc[p].res.exc = "UniqueViolationError"
        /\ Returned(q, "batch") /\ proc[q].res.body.created >= 1
        /\ proc[p].content \in Contents(tables[SqlName(proc[p].sid)])

\* The clients' first requests, sent to the store while it was still empty.
FirstRequests == nops[1] = MaxOps - 1 /\ nops[2] = MaxOps2 - 1

\* A call of embed_content that the Embedder did not fail.
EmbedCallServed(p) ==
    /\ Done(p, "embed")
    /\ proc[p].meta.kind # "noattr"
    /\ proc[p].res.exc # "EmbedderError"

\* C2: of two concurrent single ingests of the same new content, one returns
\* created=true, the other created=false with the same id, neither an error,
\* and one row is created.
C2_RaceSafe ==
    \A p, q \in Workers :
        ( /\ p # q
          /\ FirstRequests
          /\ EmbedCallServed(p) /\ EmbedCallServed(q)
          /\ proc[p].sid = proc[q].sid
          /\ proc[p].content = proc[q].content )
        => /\ proc[p].res.kind = "ok" /\ proc[q].res.kind = "ok"
           /\ proc[p].res.body.created # proc[q].res.body.created
           /\ proc[p].res.body.id = proc[q].res.body.id
           /\ Cardinality({r \in tables[SqlName(proc[p].sid)].rows :
                              r.content = proc[p].content}) = 1

\* C3: a call of embed_content right after one that created the same content
\* in the same store returns created=false with the same id and leaves the
\* tables as the first call left them; and a call that returns for content
\* that was not in the table returns created=true, the row then being there.
C3_Idempotent ==
    LET cur == proc[1]
        prev == hist.prev IN
    /\ ( /\ Done(1, "embed") /\ cur.meta.kind # "noattr"
         /\ prev.op = "embed" /\ prev.sid = cur.sid /\ prev.content = cur.content
         /\ prev.res.kind = "ok" /\ prev.res.body.created )
       => /\ cur.res.kind = "ok"
          /\ ~cur.res.body.created
          /\ cur.res.body.id = prev.res.body.id
          /\ tables = hist.before.tables
    /\ ( /\ Returned(1, "embed")
         /\ cur.content \notin Contents(hist.before.tables[SqlName(cur.sid)]) )
       => /\ cur.res.body.created
          /\ \E r \in tables[SqlName(cur.sid)].rows :
                r.id = cur.res.body.id /\ r.content = cur.content

\* The second of two ingests of the same content has returned.
C3_Witness ==
    /\ Returned(1, "embed") /\ ~proc[1].res.body.created
    /\ hist.prev.op = "embed" /\ hist.prev.content = proc[1].content
    /\ hist.prev.res.kind = "ok" /\ hist.prev.res.body.created
    /\ hist.prev.res.body.id = proc[1].res.body.id

\* Nobody is between two statements of a request.
Quiescent == \A p \in Workers : proc[p].pc \in {"idle", "done"}

\* The relations of the database: the two catalog tables and the content tables.
Relations == CatalogTables \cup DOMAIN tables

\* C4: store creation is atomic: once the requests have ended, failed ones
\* included, every store id of the catalog has its content table.
C4_CreateAtomic ==
    Quiescent => \A sid \in DOMAIN stores : SqlName(sid) \in Relations

\* C5: _validate_table_name and _validate_metadata_key accept a string if and
\* only if the whole string is a letter or underscore followed by letters,
\* digits and underscores, and reject every other string.
C5_ValidatorExact ==
    /\ vout.table \in {"returned", "ValueError"}
          => (vout.table = "returned" <=> BareIdentifier(vin))
    /\ vout.key \in {"returned", "ValueError"}
          => (vout.key = "returned" <=> BareIdentifier(vin))

\* C6: two distinct store ids of the catalog have different content tables,
\* an ingest into one store leaves the table of every other store as it was,
\* and no store's content table is a catalog table.
C6_TablesDistinct ==
    /\ \A s1, s2 \in DOMAIN stores :
          (Quiescent /\ s1 # s2 /\ SqlName(s1) \in DOMAIN tables)
              => SqlName(s1) # SqlName(s2)
    /\ Done(1, "embed") =>
          \A s2 \in DOMAIN stores \ {proc[1].sid} :
              SqlName(s2) \in DOMAIN tables =>
                  tables[SqlName(s2)] = hist.before.tables[SqlName(s2)]
    /\ Returned(1, "create") => SqlName(proc[1].sid) \notin CatalogTables

\* A response of a batch ingest.
BatchBody(p) == proc[p].res.body

\* C7: every batch ingest that returns has total equal to the number of
\* input items, total = created + skipped, and total entries in results.
C7_BatchTotals ==
    \A p \in Workers :
        Returned(p, "batch") =>
            /\ BatchBody(p).total = Len(proc[p].items)
            /\ BatchBody(p).total = BatchBody(p).created + BatchBody(p).skipped
            /\ Len(BatchBody(p).results) = BatchBody(p).total

\* A batch with the same content twice has returned, the first item created
\* and the second skipped after its insert found the row of the first.
C7_Witness ==
    \E p \in Workers :
        /\ Returned(p, "batch")
        /\ Len(proc[p].items) = 2
        /\ proc[p].items[1].content = proc[p].items[2].content
        /\ BatchBody(p).created = 1
        /\ BatchBody(p).skipped = 1

Blank == {"", " "}

\* C8: a single ingest with empty or blank content fails before any call of
\* the Embedder and inserts no row.
C8_EmptyContent ==
    (Done(1, "embed") /\ proc[1].content \in Blank) =>
        /\ proc[1].res.kind = "error"
        /\ proc[1].calls = <<>>
        /\ tables = hist.before.tables

\* C9: a create-store request whose id fails the identifier check fails and
\* leaves the catalog and the tables as they were before the request.
C9_InvalidIdNoEffect ==
    (Done(1, "create") /\ ~ValidateTableName(proc[1].sid)) =>
        /\ proc[1].res.kind = "error"
        /\ stores = hist.before.stores
        /\ tables = hist.before.tables

\* C10: a query with a filter key that fails the identifier check fails
\* before any call of the Embedder.
C10_KeyCheckedFirst ==
    ( /\ Done(1, "query")
      /\ proc[1].meta.kind = "dict"
      /\ ~FilterKeysValid(proc[1].meta) ) =>
        /\ proc[1].res.kind = "error"
        /\ proc[1].calls = <<>>

\* The request of client 1 is at an insert whose vector the Embedder has
\* returned: the last call was for the text of the row to be written.
InsertAfterEmbed ==
    LET r == proc[1] IN
    \/ /\ r.pc = "e_insert"
       /\ r.calls # <<>>
       /\ r.calls[Len(r.calls)] = <<TextToEmbed(r.query, r.content)>>
       /\ r.vec = Embedding(r.model, TextToEmbed(r.query, r.content))
    \/ /\ r.pc = "b_insert"
       /\ r.calls # <<>>
       /\ r.calls[Len(r.calls)] = TextsToEmbed(r.newItems)

\* C11: a content table changes only at an insert that follows a successful
\* Embedder call for that request, and a single or batch ingest whose
\* Embedder call fails ends in an error with the tables as they were when
\* the request arrived.
C11_InsertAfterEmbed ==
    [][ /\ (\E t \in DOMAIN tables : tables'[t] # tables[t]) => InsertAfterEmbed
        /\ ( /\ proc[1].pc # "done"
             /\ proc'[1].pc = "done"
             /\ proc'[1].res.exc = "EmbedderError"
             /\ proc'[1].op \in {"embed", "batch"} )
           => /\ proc'[1].res.kind = "error"
              /\ tables' = hist'.before.tables ]_vars

\* A batch with one stored and one new item has ended with the Embedder's
\* failure, and the table is as the earlier ingest left it.
C11_Witness ==
    /\ Done(1, "batch")
    /\ proc[1].res.exc = "EmbedderError"
    /\ Len(proc[1].items) = 2
    /\ hist.prev.op = "embed" /\ hist.prev.res.kind = "ok" /\ hist.prev.res.body.created
    /\ hist.prev.content = proc[1].items[1].content
    /\ tables = hist.before.tables

\* A call of embed_content_batch that the Embedder did not fail.
BatchCallServed(p) ==
    /\ Done(p, "batch")
    /\ proc[p].items # <<>>
    /\ \A k \in DOMAIN proc[p].items : proc[p].items[k].meta.kind # "noattr"
    /\ proc[p].res.exc # "EmbedderError"

ItemContents(items) == {items[k].content : k \in DOMAIN items}

\* The results of a batch response for one content.
ResultsFor(p, c) ==
    {BatchBody(p).results[k] : k \in {j \in DOMAIN BatchBody(p).results :
                                         BatchBody(p).results[j].content = c}}

ResultIndexes(p, c) ==
    {k \in DOMAIN BatchBody(p).results : BatchBody(p).results[k].content = c}

QueryBody == proc[1].res.body

\* The rows of the queried table that a query's WHERE clause lets through.
QueryMatches ==
    Qualifying(tables[SqlName(proc[1].sid)], proc[1].query,
               proc[1].max_distance, proc[1].meta)

\* C14: a query returns rows of the table with their distances in
\* non-decreasing order, none beyond max_distance, count = len(results) =
\* min(limit, number of qualifying rows), and no qualifying row left out is
\* nearer than a returned one.
C14_QueryOrder ==
    Returned(1, "query") =>
        LET r == proc[1]
            res == QueryBody.results
            tab == tables[SqlName(r.sid)]
            ids == {res[k].id : k \in DOMAIN res} IN
        /\ \A i, j \in DOMAIN res : i < j => res[i].distance <= res[j].distance
        /\ \A i, j \in DOMAIN res : i # j => res[i].id # res[j].id
        /\ \A k \in DOMAIN res :
              /\ \E x \in tab.rows :
                    /\ x.id = res[k].id /\ x.content = res[k].content
                    /\ res[k].distance = Distance(x.emb, r.query)
              /\ r.max_distance # NoDistance => res[k].distance <= r.max_distance[1]
        /\ QueryBody.count = Len(res)
        /\ Len(res) = Min(r.limit, Cardinality(QueryMatches))
        /\ \A x \in QueryMatches :
              x.id \notin ids =>
                  \A k \in DOMAIN res : res[k].distance <= Distance(x.emb, r.query)

\* A query with limit 1 and no other condition over a table of two rows at
\* different distances has returned the nearer row.
C14_Witness ==
    /\ Returned(1, "query")
    /\ proc[1].limit = 1
    /\ proc[1].max_distance = NoDistance
    /\ Cardinality(QueryMatches) = 2
    /\ \E x, y \in QueryMatches :
          /\ Distance(x.emb, proc[1].query) < Distance(y.emb, proc[1].query)
          /\ QueryBody.results[1].id = x.id
    /\ QueryBody.count = 1

\* The rows a query has returned.
ReturnedIds == {QueryBody.results[k].id : k \in DOMAIN QueryBody.results}

\* C15: a query filtered with {k: v} returns every record stored with
\* metadata {k: v}, v a string, an integer or a boolean, and returns no
\* record stored with another value for k or without metadata.
C15_MetadataEquality ==
    ( /\ Returned(1, "query")
      /\ proc[1].meta.kind = "dict"
      /\ DOMAIN proc[1].meta.d # {}
      /\ Cardinality(tables[SqlName(proc[1].sid)].rows) <= proc[1].limit )
    => \A x \in tables[SqlName(proc[1].sid)].rows :
          x.id \in ReturnedIds <=>
              /\ x.meta.kind = "dict"
              /\ \A k \in DOMAIN proc[1].meta.d :
                    k \in DOMAIN x.meta.d /\ x.meta.d[k] = proc[1].meta.d[k]

\* Client 1 sends an ingest, a batch ingest with items or a query.
DataRequestArrives ==
    /\ nops'[1] # nops[1]
    /\ proc'[1].op \in {"embed", "batch", "query"}
    /\ proc'[1].op = "batch" => proc'[1].items # <<>>

\* C16: an ingest, batch ingest or query for a store id that is not in the
\* catalog ends with 404 in its first step, the lookup of the store: the
\* Embedder is not called and no statement on a content table is run.
C16_UnknownStore ==
    [][ (DataRequestArrives /\ proc'[1].sid \notin DOMAIN stores)
        => /\ proc'[1].pc = "done"
           /\ proc'[1].res.kind = "error"
           /\ proc'[1].res.status = 404
           /\ proc'[1].calls = <<>>
           /\ tables' = tables ]_vars

\* A batch with items, sent after the store was deleted, has ended with 404
\* while the store's table is still there.
C16_Witness ==
    /\ Done(1, "batch")
    /\ proc[1].items # <<>>
    /\ proc[1].res.status = 404
    /\ hist.prev.op = "delete"
    /\ proc[1].sid \notin DOMAIN stores
    /\ SqlName(proc[1].sid) \in DOMAIN tables

C18_TableWidth ==
    Returned(1, "create") =>
        /\ SqlName(proc[1].sid) \in DOMAIN tables
        /\ tables[SqlName(proc[1].sid)].dims = proc[1].dims

\* C19: a request holds one pooled connection while it runs and none once
\* it has completed, whether it returned, was answered 404 or 409, or failed
\* with an exception of the Embedder or the backend.
C19_ConnectionReleased ==
    \A p \in Workers :
        /\ proc[p].pc \in {"idle", "done"} => proc[p].conn = 0
        /\ proc[p].pc \notin {"idle", "done"} => proc[p].conn = 1

\* An ingest has failed with the Embedder's exception after a create-store
\* request was answered 409, and no connection is held.
C19_Witness ==
    /\ Done(1, "embed")
    /\ proc[1].res.exc = "EmbedderError"
    /\ hist.prev.op = "create" /\ hist.prev.res.status = 409
    /\ hist.prev.conn = 0
    /\ proc[1].conn = 0

\* C20: the Embedder is never called with an empty text, and its batch
\* operation never with an empty list of texts.
C20_NoEmptyText ==
    \A p \in Workers :
        \A k \in DOMAIN proc[p].calls :
            /\ proc[p].calls[k] # <<>>
            /\ \A j \in DOMAIN proc[p].calls[k] : proc[p].calls[k][j] # ""

\* A batch ingest of client 1 ends in an error at this step.
BatchFails ==
    /\ proc[1].op = "batch"
    /\ proc[1].pc # "done"
    /\ proc'[1].pc = "done"
    /\ proc'[1].res.kind = "error"

\* A single ingest of client 1 ends at this step, its content being one of
\* the rows that the failed batch before it had left in the table.
IngestAfterFailedBatch ==
    /\ proc[1].op = "embed"
    /\ proc[1].pc # "done"
    /\ proc'[1].pc = "done"
    /\ hist.prev.op = "batch"
    /\ hist.prev.res.kind = "error"
    /\ proc[1].meta.kind # "noattr"
    /\ proc[1].content \in Contents(tables[SqlName(proc[1].sid)])

\* C21: when a batch ingest fails, the rows it has inserted before the
\* failure stay in the table, and a later ingest of such a content returns
\* created=false with the id of the row left behind.
C21_NoRollback ==
    [][ /\ BatchFails =>
            /\ \A t \in DOMAIN tables : tables'[t].rows = tables[t].rows
            /\ hist.before.tables[SqlName(proc[1].sid)].rows
                  \subseteq tables'[SqlName(proc[1].sid)].rows
        /\ IngestAfterFailedBatch =>
            /\ proc'[1].res.kind = "ok"
            /\ ~proc'[1].res.body.created
            /\ \E x \in tables'[SqlName(proc[1].sid)].rows :
                  /\ x.content = proc[1].content
                  /\ x.id = proc'[1].res.body.id
            /\ tables' = tables ]_vars

\* A batch has failed on the insert of its second item after its first was
\* inserted; the row is there, and a later ingest of its content got its id.
C21_Witness ==
    /\ Returned(1, "embed")
    /\ ~proc[1].res.body.created
    /\ hist.prev.op = "batch"
    /\ hist.prev.res.exc = "InvalidTextRepresentationError"
    /\ Len(hist.prev.items) = 2
    /\ hist.prev.items[1].content = proc[1].content
    /\ Cardinality(tables[SqlName(proc[1].sid)].rows) = 1

\* C22: no operation updates or deletes a content record: a row that is in
\* a table is in it, the same in id, content, embedding and metadata, after
\* every step of every request.
C22_RowsImmutable ==
    [][ \A t \in DOMAIN tables :
            /\ t \in DOMAIN tables'
            /\ tables[t].rows \subseteq tables'[t].rows ]_vars

\* The same content was ingested again with another query text and other
\* metadata, and the row still has the embedding and metadata of the first.
C22_Witness ==
    /\ Returned(1, "embed")
    /\ ~proc[1].res.body.created
    /\ hist.prev.op = "embed" /\ hist.prev.res.kind = "ok" /\ hist.prev.res.body.created
    /\ hist.prev.content = proc[1].content
    /\ hist.prev.query # proc[1].query
    /\ hist.prev.meta # proc[1].meta
    /\ \E x \in tables[SqlName(proc[1].sid)].rows :
          /\ x.id = proc[1].res.body.id
          /\ x.emb = TextToEmbed(hist.prev.query, hist.prev.content)
          /\ x.meta = MetadataJson(hist.prev.meta)

\* C23: a single ingest of content that is in the store's table returns the
\* row's id with created=false and dimensions=0, without a call of the
\* Embedder and without a write.
C23_HitIsReadOnly ==
    ( /\ Done(1, "embed")
      /\ proc[1].meta.kind # "noattr"
      /\ proc[1].sid \in DOMAIN hist.before.stores
      /\ SqlName(proc[1].sid) \in DOMAIN hist.before.tables
      /\ proc[1].content \in Contents(hist.before.tables[SqlName(proc[1].sid)]) )
    => /\ proc[1].res.kind = "ok"
       /\ ~proc[1].res.body.created
       /\ proc[1].res.body.dimensions = 0
       /\ \E x \in hist.before.tables[SqlName(proc[1].sid)].rows :
             x.content = proc[1].content /\ x.id = proc[1].res.body.id
       /\ proc[1].calls = <<>>
       /\ tables = hist.before.tables

\* An ingest of content that a batch had stored has returned the row's id
\* with dimensions 0.
C23_Witness ==
    /\ Returned(1, "embed")
    /\ hist.prev.op = "batch" /\ hist.prev.res.kind = "ok"
    /\ proc[1].content \in Contents(hist.before.tables[SqlName(proc[1].sid)])
    /\ proc[1].res.body.dimensions = 0
    /\ proc[1].calls = <<>>

\* The texts of the items of a batch whose content is not in a table, in
\* input order.
MissedTexts(items, tab) ==
    LET missed == SelectSeq(items, LAMBDA it : it.content \notin Contents(tab)) IN
    [k \in DOMAIN missed |->
        IF missed[k].query # None /\ missed[k].query # ""
        THEN missed[k].query ELSE missed[k].content]

\* A batch with items for a store whose table can be read.
BatchLooksUp ==
    /\ proc[1].op = "batch"
    /\ proc[1].items # <<>>
    /\ proc[1].sid \in DOMAIN hist.before.stores
    /\ ValidateTableName(proc[1].sid)
    /\ SqlName(proc[1].sid) \in DOMAIN hist.before.tables
    /\ RelationError(proc[1].sid) = None

\* C24: a batch ingest calls the Embedder at most once: not at all when the
\* lookup found every item, otherwise once with the texts (query text, else
\* content) of the items the lookup missed, in input order; the table
\* changes only after that call.
C24_OneEmbedCall ==
    /\ proc[1].op = "batch" => Len(proc[1].calls) <= 1
    /\ BatchLooksUp =>
         LET texts == MissedTexts(proc[1].items,
                                  hist.before.tables[SqlName(proc[1].sid)]) IN
         /\ proc[1].pc \in {"b_select", "b_embed"} => proc[1].calls = <<>>
         /\ proc[1].pc = "b_embed" => texts # <<>>
         /\ proc[1].pc \in {"b_insert", "b_reread"} => proc[1].calls = <<texts>>
         /\ proc[1].pc = "done" =>
               proc[1].calls = IF texts = <<>> THEN <<>> ELSE <<texts>>
         /\ tables # hist.before.tables => proc[1].calls = <<texts>>

\* A batch of a stored item and two new ones has returned after one call
\* with the two new items' query texts.
C24_Witness ==
    /\ Returned(1, "batch")
    /\ Len(proc[1].items) = 3
    /\ proc[1].items[1].content \in Contents(hist.before.tables[SqlName(proc[1].sid)])
    /\ proc[1].items[2].content = "b" /\ proc[1].items[3].content = "b"
    /\ proc[1].calls = << <<"q", "q">> >>
    /\ BatchBody(1).skipped = 2

\* The results a batch ingest has collected, by its response or so far.
BatchResults(p) ==
    IF Returned(p, "batch") THEN BatchBody(p).results ELSE proc[p].results

\* C25: no result of a batch ingest has id 0, and every result with
\* created=false, found by the lookup or read again after a lost insert,
\* has the id of a row of the store's table with the result's content.
C25_NoZeroId ==
    \A p \in Workers :
        proc[p].op = "batch" =>
            \A k \in DOMAIN BatchResults(p) :
                LET x == BatchResults(p)[k] IN
                /\ x.id # 0
                /\ ~x.created =>
                      \E row \in tables[SqlName(proc[p].sid)].rows :
                          row.id = x.id /\ row.content = x.content

\* A batch missed the lookup, lost the insert to the other client and
\* reports the other client's row.
C25_Witness ==
    \E p, q \in Workers :
        /\ p # q
        /\ Returned(p, "batch")
        /\ proc[p].calls # <<>>
        /\ \E k \in DOMAIN BatchBody(p).results :
              LET x == BatchBody(p).results[k] IN
              /\ ~x.created
              /\ x.id = SelectId(tables[SqlName(proc[p].sid)], x.content)
              /\ Returned(q, "embed")
              /\ proc[q].res.body.created
              /\ proc[q].res.body.id = x.id

\* The contents of a sequence of items or of results, in order.
ContentsSeq(xs) == [k \in DOMAIN xs |-> xs[k].content]

\* How often a content occurs in a sequence of items or of results.
Occurrences(xs, c) == Cardinality({k \in DOMAIN xs : xs[k].content = c})

\* C26: the results of a batch ingest that returns are the items found by
\* the lookup, in input order, followed by the other items in input order,
\* and every content occurs in the results as often as in the input.
C26_TwoPasses ==
    (Returned(1, "batch") /\ BatchLooksUp) =>
        LET tab == hist.before.tables[SqlName(proc[1].sid)]
            found == SelectSeq(proc[1].items, LAMBDA it : it.content \in Contents(tab))
            rest == SelectSeq(proc[1].items, LAMBDA it : it.content \notin Contents(tab)) IN
        /\ ContentsSeq(BatchBody(1).results) = ContentsSeq(found) \o ContentsSeq(rest)
        /\ \A c \in ItemContents(proc[1].items) \cup ItemContents(BatchBody(1).results) :
              Occurrences(BatchBody(1).results, c) = Occurrences(proc[1].items, c)

\* A batch whose second item was stored returns that item's result first,
\* then the results of the first and third items.
C26_Witness ==
    /\ Returned(1, "batch")
    /\ ContentsSeq(proc[1].items) = <<"b", "a", "b">>
    /\ "a" \in Contents(hist.before.tables[SqlName(proc[1].sid)])
    /\ "b" \notin Contents(hist.before.tables[SqlName(proc[1].sid)])
    /\ ContentsSeq(BatchBody(1).results) = <<"a", "b", "b">>

\* An ingest that follows a successful create-store of its store and whose
\* content was in the store's table when it arrived.
IngestAfterCreate ==
    /\ Done(1, "embed")
    /\ proc[1].meta.kind # "noattr"
    /\ hist.prev.op = "create"
    /\ hist.prev.res.kind = "ok"
    /\ hist.prev.sid = proc[1].sid
    /\ SqlName(proc[1].sid) \in DOMAIN hist.before.tables
    /\ proc[1].content \in Contents(hist.before.tables[SqlName(proc[1].sid)])

\* C27: delete-store removes the store's catalog row and leaves every table
\* with its rows as it was, no step of a create-store changes a table that
\* exists, and an ingest of stored content after the store was created
\* again returns created=false with the id the stored row has.
C27_TableOutlivesStore ==
    /\ [][ /\ proc'[1].op = "delete" =>
                /\ tables' = tables
                /\ stores' = [s \in DOMAIN stores \ {proc'[1].sid} |-> stores[s]]
           /\ proc'[1].op = "create" =>
                \A t \in DOMAIN tables :
                    t \in DOMAIN tables' /\ tables'[t] = tables[t] ]_vars
    /\ [](IngestAfterCreate =>
            /\ proc[1].res.kind = "ok"
            /\ ~proc[1].res.body.created
            /\ \E x \in hist.before.tables[SqlName(proc[1].sid)].rows :
                  x.content = proc[1].content /\ x.id = proc[1].res.body.id
            /\ tables = hist.before.tables)

\* The fourth request, an ingest after the store that held the content was
\* deleted and created again, has returned the stored row's id.
C27_Witness ==
    /\ nops[1] = 0
    /\ IngestAfterCreate
    /\ proc[1].sid \in DOMAIN stores
    /\ ~proc[1].res.body.created
    /\ proc[1].res.body.id = 1

\* C28: between a start and the next close_db at most one pool is made,
\* and the callers of get_pool that returned in that time hold the same pool.
C28_SinglePool ==
    /\ pool.made <= 1
    /\ \A p, q \in Workers :
          ( /\ pool.call[p].pc = "got" /\ pool.call[q].pc = "got"
            /\ pool.call[p].epoch = pool.call[q].epoch )
          => pool.call[p].got = pool.call[q].got

\* The first create-store requests of the two clients were for the same id
\* with a registered model, and both have ended.
SameIdCreates ==
    /\ nops[1] = MaxRaceOps - 1 /\ nops[2] = MaxRaceOps - 1
    /\ Done(1, "create") /\ Done(2, "create")
    /\ proc[1].sid = proc[2].sid
    /\ proc[1].model \in DOMAIN models /\ proc[2].model \in DOMAIN models

\* C29: after two concurrent create-store requests for one new id the
\* catalog has the row of that id, exactly one request has succeeded, and the
\* row is the one the successful request wrote.
C29_CreateRace ==
    SameIdCreates =>
        /\ proc[1].sid \in DOMAIN stores
        /\ \E w \in Workers :
              /\ proc[w].res.kind = "ok"
              /\ \A v \in Workers \ {w} : proc[v].res.kind = "error"
              /\ stores[proc[w].sid] =
                    [model |-> proc[w].model, description |-> proc[w].description]

\* The same for ids and models with which a create-store that runs alone
\* succeeds.
C29_CreatableRace ==
    ( /\ SameIdCreates
      /\ ValidateTableName(proc[1].sid)
      /\ SqlName(proc[1].sid) \notin SqlReserved \cup CatalogTables )
    => /\ proc[1].sid \in DOMAIN stores
       /\ \E w \in Workers :
              /\ proc[w].res.kind = "ok"
              /\ \A v \in Workers \ {w} : proc[v].res.kind = "error"
              /\ stores[proc[w].sid] =
                    [model |-> proc[w].model, description |-> proc[w].description]

\* A request of client p arrives in this step.
Arrives(p, op) == nops'[p] # nops[p] /\ proc'[p].op = op

\* A request that has ended in an error in this step.
Refused(p) == proc'[p].pc = "done" /\ proc'[p].res.kind = "error"

\* C30: every store of the catalog has a model of the model catalog; a
\* create-store or update-store that names an unknown model is refused, a
\* delete of a model that a store references is refused, and each of them
\* leaves both catalogs as they were.
C30_ModelReferences ==
    /\ [](\A sid \in DOMAIN stores : stores[sid].model \in DOMAIN models)
    /\ [][ \A p \in Workers :
           /\ ( /\ Arrives(p, "create") \/ Arrives(p, "update")
                /\ proc'[p].model # None
                /\ proc'[p].model \notin DOMAIN models )
              => Refused(p) /\ UNCHANGED <<models, stores>>
           /\ ( /\ Arrives(p, "delete_model")
                /\ \E sid \in DOMAIN stores : stores[sid].model = proc'[p].model )
              => Refused(p) /\ UNCHANGED <<models, stores>> ]_vars

\* A create-store found its model registered, the model was deleted by the
\* other client before the catalog insert, and the insert was refused.
C30_Witness ==
    \E p \in Workers :
        /\ Done(p, "create")
        /\ proc[p].res.exc = "ForeignKeyViolationError"
        /\ proc[p].model \notin DOMAIN models
        /\ proc[p].sid \notin DOMAIN stores

\* C31: no step of a query, from its arrival to its response or its error,
\* changes the store catalog, the model catalog or a content table, and when
\* it has ended the catalog and the tables are as they were when it arrived.
C31_QueryReadOnly ==
    /\ [][ proc'[1].op = "query" => UNCHANGED <<models, stores, tables>> ]_vars
    /\ [](Done(1, "query") =>
            /\ stores = hist.before.stores
            /\ tables = hist.before.tables)

\* A query over a table with a row has failed at its filter key after the
\* Embedder was called, and the table still has the row.
C31_Witness ==
    /\ Done(1, "query")
    /\ proc[1].res.kind = "error"
    /\ proc[1].calls # <<>>
    /\ ~FilterKeysValid(proc[1].meta)
    /\ hist.prev.op = "embed" /\ hist.prev.res.kind = "ok"
    /\ tables[SqlName(proc[1].sid)].rows # {}

====
